---- MODULE Spec2Model ----
(***************************************************************************)
(* Order lifecycle, delivery tracking, refund ledger and cart pricing of   *)
(* the git-buddy store, modelled from the admin order page (AdminOrders),  *)
(* the cart page (CartPage) and the home page (handleAddToCart).           *)
(*                                                                         *)
(* The remote store (supabase) is a set of tables; a call to it is either  *)
(* accepted or rejected.  Every async handler is split at its awaits: the  *)
(* handler up to its first await is one action, and each awaited store     *)
(* call together with the code that runs when it returns is one action     *)
(* (named ...Return, with the store's verdict as parameter ok).            *)
(***************************************************************************)
EXTENDS Integers, Sequences, FiniteSets, TLC

\* ---------------------------------------------------------------- bounds
MaxTotal == 2        \* order totals range over 1..MaxTotal
MaxAmount == 2       \* refund amounts typed by the admin range over -1..MaxAmount
MaxPayments == 3     \* the payments table holds at most this many rows
MaxTime == 2         \* new Date() is called at most this many times
MaxStock == 2        \* stock quantities range over 1..MaxStock
MaxQty == 3          \* a cart row holds a quantity of at most MaxQty
MaxSettingsRows == 2 \* table store_settings holds at most this many rows of a key
MaxFetches == 2      \* a status update starts while fewer fetchOrders calls are in flight
MaxUpdates == 2      \* a delivery field is changed while fewer delivery updates are in flight

\* ------------------------------------------------------------- constants
\* null of an object-valued state or field, of a string-valued field and of
\* a timestamp
NULL == [null |-> TRUE]
NullStr == "null"
NoTime == 0
OrderId == "o1"
DeliveryId == "d1"

ORDER_STATUSES == <<"new", "confirmed", "packed", "shipped", "delivered", "cancelled", "returned">>
DELIVERY_STATUSES == <<"pending", "assigned", "picked", "in_transit", "delivered", "failed">>

Range(f) == {f[i] : i \in DOMAIN f}
OrderStatus == Range(ORDER_STATUSES)
DeliveryStatus == Range(DELIVERY_STATUSES)
PaymentStatus == {"pending", "paid", "failed", "refunded", "partial"}
\* the items of the COD payment-status Select
CodSelectItems == {"pending", "paid", "partial", "failed"}
PaymentMethods == {"cod", "online"}
Sessions == {"s1", "s2"}
\* what the refund amount input can hold: the empty string or a numeric
\* string (a numeric string is the one-element sequence of its number)
NoAmount == <<>>
RefundAmountInputs == {NoAmount} \cup {<<n>> : n \in -1..MaxAmount}
RefundReasonInputs == {"", "damaged"}
\* null of a number-valued field
NoNum == -1
\* the products of the catalog, in the order the store returns their rows
ProductIds == <<"p1", "p2">>
Products == Range(ProductIds)
\* prices are multiples of 100, so that subtotal * value / 100 is a whole number
Prices == {200, 500}
\* the coupons an admin can have created
Coupons ==
  [code : {"WELCOME10"}, type : {"percentage"}, value : {10, 50},
   min_order_value : {NoNum, 400}, max_discount : {NoNum, 0, 40}, is_active : BOOLEAN]
  \cup
  [code : {"WELCOME10"}, type : {"fixed"}, value : {100, 600},
   min_order_value : {NoNum, 400}, max_discount : {NoNum}, is_active : BOOLEAN]
\* what the customer types into the coupon input
CouponCodeInputs == {"", " ", "welcome10", "nosuch"}

VARIABLES
  \* ---- remote store
  dbOrder,            \* the row of table orders
  dbPayments,         \* table payments, in insertion order
  dbDelivery,         \* the row of table deliveries, NULL when there is none
  now,                \* the clock read by new Date()
  \* ---- AdminOrders component state, one per admin session
  orders,             \* useState orders: the fetched list
  selectedOrder,      \* useState selectedOrder
  delivery,           \* useState delivery
  isUpdating,         \* useState isUpdating
  isUpdatingDelivery, \* useState isUpdatingDelivery
  isRefunding,        \* useState isRefunding
  refundAmount,       \* useState refundAmount
  refundReason,       \* useState refundReason
  toast,              \* variant of the last toast shown: default or destructive
  \* ---- handlers suspended at an await, one per admin session
  statusReq,          \* handleStatusUpdate
  refundReq,          \* handleRefund
  codReq,             \* COD payment-status onValueChange
  deliveryReqs,       \* handleDeliveryUpdate calls in flight
  ordersFetch,        \* fetchOrders calls in flight
  detailsFetch,       \* fetchOrderDetails calls in flight
  \* ---- remote store, the customer's side
  products,           \* table products: price and stock_quantity of each product
  coupons,            \* table coupons
  dbCart,             \* whether the customer's row of table cart exists
  dbCartItems,        \* table cart_items: the quantity of each product's row, 0 for no row
  \* ---- CartPage component state
  cartItems,          \* useState cartItems
  couponCode,         \* useState couponCode
  appliedCoupon,      \* useState appliedCoupon
  isApplyingCoupon,   \* useState isApplyingCoupon
  cartToast,          \* variant of the last toast shown to the customer
  \* ---- the customer's handlers suspended at an await
  cartFetch,          \* fetchCart
  qtyReq,             \* updateQuantity
  removeReq,          \* removeItem
  couponReq,          \* applyCoupon
  addReq,             \* handleAddToCart of the home page
  \* ---- the settings page of the admin and its table
  dbStoreSettings,    \* table store_settings: the values of the rows with key 'checkout'
  checkout,           \* useState checkout
  isSaving,           \* useState isSaving
  settingsToast,      \* variant of the last toast shown on the settings page
  settingsFetch,      \* fetchSettings in flight
  saveReq,            \* handleSave suspended at an await
  \* ---- the cart page as rendered
  rendered            \* the inputs and the totals of the last render of the cart page

storeVars == <<dbOrder, dbPayments, dbDelivery, now>>
localVars == <<orders, selectedOrder, delivery, isUpdating, isUpdatingDelivery,
               isRefunding, refundAmount, refundReason, toast>>
reqVars == <<statusReq, refundReq, codReq, deliveryReqs, ordersFetch, detailsFetch>>
adminVars == <<storeVars, localVars, reqVars>>
settingsVars == <<dbStoreSettings, checkout, isSaving, settingsToast, settingsFetch, saveReq>>
\* what the handlers of the orders page and of the customer's pages never
\* write: the catalog, the settings and the totals of the last render
catalogVars == <<products, coupons, settingsVars, rendered>>
cartStoreVars == <<dbCart, dbCartItems>>
cartLocalVars == <<cartItems, couponCode, appliedCoupon, isApplyingCoupon, cartToast>>
cartReqVars == <<cartFetch, qtyReq, removeReq, couponReq, addReq>>
cartVars == <<catalogVars, cartStoreVars, cartLocalVars, cartReqVars>>
vars == <<adminVars, cartVars>>

\* ------------------------------------------------------------ helpers
RemoveAt(s, i) == SubSeq(s, 1, i - 1) \o SubSeq(s, i + 1, Len(s))

\* Number(refundAmount)
NumberOf(a) == IF a = NoAmount THEN 0 ELSE a[1]

\* fetchOrders() up to its await: the select is sent
IssueFetchOrders(s) ==
  ordersFetch' = [ordersFetch EXCEPT ![s] = Append(@, [state |-> "sent"])]

\* fetchOrderDetails(orderId) up to its await: the selects are sent
IssueFetchOrderDetails(s, orderId) ==
  detailsFetch' = [detailsFetch EXCEPT ![s] =
                     Append(@, [state |-> "sent", orderId |-> orderId])]

\* ---------------------------------------------------------------- Init
InitOrders ==
  [id : {OrderId}, status : {"new"}, payment_status : {"pending", "paid"},
   payment_method : PaymentMethods, total : 1..MaxTotal]

\* the payment row written at checkout, when there is one
CapturePayment(o) ==
  [id |-> 1, order_id |-> o.id, amount |-> o.total, method |-> o.payment_method,
   status |-> o.payment_status, refund_amount |-> 0, refund_reason |-> NullStr]

\* the delivery row as created for the order
NewDelivery(o) ==
  [id |-> DeliveryId, order_id |-> o.id, status |-> "pending",
   partner_name |-> NullStr, tracking_number |-> NullStr, tracking_url |-> NullStr,
   delivered_at |-> NoTime, is_cod |-> (o.payment_method = "cod"),
   cod_amount |-> o.total, cod_collected |-> FALSE]

\* the component state as constructed, with the fetchOrders() of the mount
\* effect sent
InitLocal ==
  /\ orders = [s \in Sessions |-> <<>>]
  /\ selectedOrder = [s \in Sessions |-> NULL]
  /\ delivery = [s \in Sessions |-> NULL]
  /\ isUpdating = [s \in Sessions |-> FALSE]
  /\ isUpdatingDelivery = [s \in Sessions |-> FALSE]
  /\ isRefunding = [s \in Sessions |-> FALSE]
  /\ refundAmount = [s \in Sessions |-> NoAmount]
  /\ refundReason = [s \in Sessions |-> ""]
  /\ toast = [s \in Sessions |-> "none"]
  /\ statusReq = [s \in Sessions |-> NULL]
  /\ refundReq = [s \in Sessions |-> NULL]
  /\ codReq = [s \in Sessions |-> NULL]
  /\ deliveryReqs = [s \in Sessions |-> <<>>]
  /\ ordersFetch = [s \in Sessions |-> <<[state |-> "sent"]>>]
  /\ detailsFetch = [s \in Sessions |-> <<>>]

InitAdmin ==
  /\ dbOrder \in InitOrders
  /\ dbPayments \in {<<>>, <<CapturePayment(dbOrder)>>}
  /\ dbDelivery \in {NULL, NewDelivery(dbOrder)}
  /\ now = 1
  /\ InitLocal

\* the cart page as constructed, with the fetchCart() of its effect sent
InitCartLocal ==
  /\ cartItems = <<>>
  /\ couponCode = ""
  /\ appliedCoupon = NULL
  /\ isApplyingCoupon = FALSE
  /\ cartToast = "none"
  /\ rendered = NULL
  /\ cartFetch = "cart"
  /\ qtyReq = NULL
  /\ removeReq = NULL
  /\ couponReq = NULL
  /\ addReq = NULL

\* useState<CheckoutSettings>({...})
DefaultCheckout ==
  [cod_enabled |-> TRUE, min_order_value |-> 0,
   free_shipping_threshold |-> 500, default_shipping_charge |-> 50]

\* the settings page with fetchSettings() answered, nothing saved yet
InitSettings ==
  /\ dbStoreSettings = <<>>
  /\ checkout = DefaultCheckout
  /\ isSaving = NullStr
  /\ settingsToast = "none"
  /\ settingsFetch = FALSE
  /\ saveReq = NULL

InitCart ==
  /\ InitSettings
  /\ products \in [Products -> [price : Prices, stock_quantity : 1..MaxStock]]
  /\ coupons \in {{c} : c \in Coupons}
  /\ dbCart \in BOOLEAN
  /\ dbCartItems \in [Products -> 0..MaxStock]
  /\ \A p \in Products : dbCartItems[p] <= products[p].stock_quantity
  /\ ~dbCart => \A p \in Products : dbCartItems[p] = 0
  /\ InitCartLocal

\* one state of the customer's side, for the specifications of the admin's
CartAtRest ==
  /\ InitSettings
  /\ products = [p \in Products |-> [price |-> 200, stock_quantity |-> 1]]
  /\ coupons = {}
  /\ dbCart = FALSE
  /\ dbCartItems = [p \in Products |-> 0]
  /\ InitCartLocal

\* one state of the admin's side, for the specifications of the customer's
AdminAtRest ==
  /\ dbOrder = [id |-> OrderId, status |-> "new", payment_status |-> "pending",
                payment_method |-> "cod", total |-> 1]
  /\ dbPayments = <<>>
  /\ dbDelivery = NULL
  /\ now = 1
  /\ InitLocal

Init == InitAdmin /\ CartAtRest

\* ------------------------------------------------------------ fetchOrders
\* the page is loaded again: the component state is as constructed and
\* useEffect(() => { fetchOrders(); }, []) runs
Mount(s) ==
  /\ orders' = [orders EXCEPT ![s] = <<>>]
  /\ selectedOrder' = [selectedOrder EXCEPT ![s] = NULL]
  /\ delivery' = [delivery EXCEPT ![s] = NULL]
  /\ isUpdating' = [isUpdating EXCEPT ![s] = FALSE]
  /\ isUpdatingDelivery' = [isUpdatingDelivery EXCEPT ![s] = FALSE]
  /\ isRefunding' = [isRefunding EXCEPT ![s] = FALSE]
  /\ refundAmount' = [refundAmount EXCEPT ![s] = NoAmount]
  /\ refundReason' = [refundReason EXCEPT ![s] = ""]
  /\ toast' = [toast EXCEPT ![s] = "none"]
  /\ statusReq' = [statusReq EXCEPT ![s] = NULL]
  /\ refundReq' = [refundReq EXCEPT ![s] = NULL]
  /\ codReq' = [codReq EXCEPT ![s] = NULL]
  /\ deliveryReqs' = [deliveryReqs EXCEPT ![s] = <<>>]
  /\ ordersFetch' = [ordersFetch EXCEPT ![s] = <<[state |-> "sent"]>>]
  /\ detailsFetch' = [detailsFetch EXCEPT ![s] = <<>>]
  /\ UNCHANGED <<cartVars, storeVars>>

\* the store evaluates the i-th fetchOrders select in flight
FetchOrdersRead(s, i) ==
  /\ i \in DOMAIN ordersFetch[s]
  /\ ordersFetch[s][i].state = "sent"
  /\ \E ok \in BOOLEAN :
       ordersFetch' = [ordersFetch EXCEPT ![s][i] =
                         IF ok THEN [state |-> "data", data |-> <<dbOrder>>]
                         ELSE [state |-> "error"]]
  /\ UNCHANGED <<cartVars, storeVars, localVars, statusReq, refundReq, codReq, deliveryReqs,
                 detailsFetch>>

\* the i-th fetchOrders response arrives
FetchOrdersReturn(s, i) ==
  /\ i \in DOMAIN ordersFetch[s]
  /\ ordersFetch[s][i].state # "sent"
  /\ IF ordersFetch[s][i].state = "error"
       THEN /\ toast' = [toast EXCEPT ![s] = "destructive"]
            /\ UNCHANGED orders
       ELSE /\ orders' = [orders EXCEPT ![s] = ordersFetch[s][i].data]
            /\ UNCHANGED toast
  /\ ordersFetch' = [ordersFetch EXCEPT ![s] = RemoveAt(@, i)]
  /\ UNCHANGED <<cartVars, storeVars, selectedOrder, delivery, isUpdating, isUpdatingDelivery,
                 isRefunding, refundAmount, refundReason, statusReq, refundReq,
                 codReq, deliveryReqs, detailsFetch>>

\* ------------------------------------------------------ fetchOrderDetails
\* deliveries.select('*').eq('order_id', orderId).single()
SingleDelivery(orderId) ==
  IF dbDelivery # NULL /\ dbDelivery.order_id = orderId THEN dbDelivery ELSE NULL

\* the store evaluates the selects of the i-th fetchOrderDetails in flight;
\* a rejected select yields no data
FetchOrderDetailsRead(s, i) ==
  /\ i \in DOMAIN detailsFetch[s]
  /\ detailsFetch[s][i].state = "sent"
  /\ \E ok \in BOOLEAN :
       detailsFetch' = [detailsFetch EXCEPT ![s][i] =
          [state |-> "data",
           deliveryRes |-> IF ok THEN SingleDelivery(detailsFetch[s][i].orderId)
                           ELSE NULL]]
  /\ UNCHANGED <<cartVars, storeVars, localVars, statusReq, refundReq, codReq, deliveryReqs,
                 ordersFetch>>

\* the responses of the i-th fetchOrderDetails have arrived
FetchOrderDetailsReturn(s, i) ==
  /\ i \in DOMAIN detailsFetch[s]
  /\ detailsFetch[s][i].state = "data"
  /\ delivery' = [delivery EXCEPT ![s] = detailsFetch[s][i].deliveryRes]
  /\ detailsFetch' = [detailsFetch EXCEPT ![s] = RemoveAt(@, i)]
  /\ UNCHANGED <<cartVars, storeVars, orders, selectedOrder, isUpdating, isUpdatingDelivery,
                 isRefunding, refundAmount, refundReason, toast, statusReq,
                 refundReq, codReq, deliveryReqs, ordersFetch>>

\* ---------------------------------------------------- handleRowClick/Back
HandleRowClick(s) ==
  /\ selectedOrder[s] = NULL
  /\ \E i \in DOMAIN orders[s] :
       /\ selectedOrder' = [selectedOrder EXCEPT ![s] = orders[s][i]]
       /\ IssueFetchOrderDetails(s, orders[s][i].id)
  /\ UNCHANGED <<cartVars, storeVars, orders, delivery, isUpdating, isUpdatingDelivery,
                 isRefunding, refundAmount, refundReason, toast, statusReq,
                 refundReq, codReq, deliveryReqs, ordersFetch>>

HandleBack(s) ==
  /\ selectedOrder[s] # NULL
  /\ selectedOrder' = [selectedOrder EXCEPT ![s] = NULL]
  /\ delivery' = [delivery EXCEPT ![s] = NULL]
  /\ UNCHANGED <<cartVars, storeVars, orders, isUpdating, isUpdatingDelivery, isRefunding,
                 refundAmount, refundReason, toast, reqVars>>

\* ------------------------------------------------------ handleStatusUpdate
\* handleStatusUpdate up to its await (the Select is disabled while
\* isUpdating)
HandleStatusUpdate(s, newStatus) ==
  /\ selectedOrder[s] # NULL
  /\ ~isUpdating[s]
  /\ isUpdating' = [isUpdating EXCEPT ![s] = TRUE]
  /\ statusReq' = [statusReq EXCEPT ![s] =
                     [newStatus |-> newStatus, selectedOrder |-> selectedOrder[s]]]
  /\ UNCHANGED <<cartVars, storeVars, orders, selectedOrder, delivery, isUpdatingDelivery,
                 isRefunding, refundAmount, refundReason, toast, refundReq, codReq,
                 deliveryReqs, ordersFetch, detailsFetch>>

\* a status update that also marks a cancelled order as refunded
UpdateOrderStatusAndPayment(o, id, newStatus) ==
  IF o.id = id
    THEN [o EXCEPT !.status = newStatus,
                   !.payment_status = IF newStatus = "cancelled" THEN "refunded" ELSE @]
    ELSE o

\* orders.update({ status: newStatus }).eq('id', selectedOrder.id)
UpdateOrderStatus(o, id, newStatus) ==
  IF o.id = id THEN [o EXCEPT !.status = newStatus] ELSE o

\* the update of handleStatusUpdate and the code after it
StatusUpdateReturn(s, ok) ==
  /\ statusReq[s] # NULL
  /\ LET r == statusReq[s] IN
     IF ok
       THEN /\ dbOrder' = UpdateOrderStatus(dbOrder, r.selectedOrder.id, r.newStatus)
            /\ toast' = [toast EXCEPT ![s] = "default"]
            /\ selectedOrder' = [selectedOrder EXCEPT ![s] =
                                   [r.selectedOrder EXCEPT !.status = r.newStatus]]
            /\ IssueFetchOrders(s)
       ELSE /\ toast' = [toast EXCEPT ![s] = "destructive"]
            /\ UNCHANGED <<dbOrder, selectedOrder, ordersFetch>>
  /\ isUpdating' = [isUpdating EXCEPT ![s] = FALSE]
  /\ statusReq' = [statusReq EXCEPT ![s] = NULL]
  /\ UNCHANGED <<cartVars, dbPayments, dbDelivery, now, orders, delivery, isUpdatingDelivery,
                 isRefunding, refundAmount, refundReason, refundReq, codReq,
                 deliveryReqs, detailsFetch>>

\* ---------------------------------------------------- handleDeliveryUpdate
\* an updateData that stamps delivered_at on every change of the status
UpdateDataStamped(field, value, t) ==
  [field |-> field, value |-> value,
   delivered_at |-> IF field = "status" THEN t ELSE NoTime]

\* updateData of handleDeliveryUpdate(field, value), built at time t
UpdateData(field, value, t) ==
  [field |-> field, value |-> value,
   delivered_at |-> IF field = "status" /\ value = "delivered" THEN t ELSE NoTime]

\* an update that writes the named field only
ApplyUpdateDataFieldOnly(d, u) ==
  [d EXCEPT ![u.field] = u.value]

\* { ...d, ...updateData }, which is also what the update writes to the row
ApplyUpdateData(d, u) ==
  LET d1 == [d EXCEPT ![u.field] = u.value]
  IN IF u.delivered_at # NoTime THEN [d1 EXCEPT !.delivered_at = u.delivered_at]
     ELSE d1

\* handleDeliveryUpdate up to its await (the status Select is disabled while
\* isUpdatingDelivery, the Inputs are not)
HandleDeliveryUpdate(s, field, value) ==
  /\ delivery[s] # NULL
  /\ field = "status" => ~isUpdatingDelivery[s]
  /\ now <= MaxTime
  /\ isUpdatingDelivery' = [isUpdatingDelivery EXCEPT ![s] = TRUE]
  /\ deliveryReqs' = [deliveryReqs EXCEPT ![s] =
        Append(@, [updateData |-> UpdateData(field, value, now),
                   delivery |-> delivery[s]])]
  /\ now' = IF field = "status" /\ value = "delivered" THEN now + 1 ELSE now
  /\ UNCHANGED <<cartVars, dbOrder, dbPayments, dbDelivery, orders, selectedOrder, delivery,
                 isUpdating, isRefunding, refundAmount, refundReason, toast,
                 statusReq, refundReq, codReq, ordersFetch, detailsFetch>>

\* deliveries.update(updateData).eq('id', delivery.id) of the i-th call in
\* flight and the code after it
DeliveryUpdateReturn(s, i, ok) ==
  /\ i \in DOMAIN deliveryReqs[s]
  /\ LET r == deliveryReqs[s][i] IN
     IF ok
       THEN /\ dbDelivery' = IF dbDelivery # NULL /\ dbDelivery.id = r.delivery.id
                               THEN ApplyUpdateData(dbDelivery, r.updateData)
                               ELSE dbDelivery
            /\ toast' = [toast EXCEPT ![s] = "default"]
            /\ delivery' = [delivery EXCEPT ![s] = ApplyUpdateData(r.delivery, r.updateData)]
       ELSE /\ toast' = [toast EXCEPT ![s] = "destructive"]
            /\ UNCHANGED <<dbDelivery, delivery>>
  /\ isUpdatingDelivery' = [isUpdatingDelivery EXCEPT ![s] = FALSE]
  /\ deliveryReqs' = [deliveryReqs EXCEPT ![s] = RemoveAt(@, i)]
  /\ UNCHANGED <<cartVars, dbOrder, dbPayments, now, orders, selectedOrder, isUpdating,
                 isRefunding, refundAmount, refundReason, statusReq, refundReq,
                 codReq, ordersFetch, detailsFetch>>

\* ------------------------------------------------------ getDeliveryProgress
\* Array.prototype.indexOf: the 0-based position of x in f, -1 when absent
IndexOf(f, x) ==
  IF \E i \in DOMAIN f : f[i] = x
    THEN (CHOOSE i \in DOMAIN f : f[i] = x /\ \A j \in 1..(i - 1) : f[j] # x) - 1
    ELSE 0 - 1

\* getDeliveryProgress() in session s, as the exact fraction num / den:
\* ((statusIndex + 1) / DELIVERY_STATUSES.length) * 100, and 0 without delivery
GetDeliveryProgress(s) ==
  IF delivery[s] = NULL THEN [num |-> 0, den |-> 1]
  ELSE LET statusIndex == IndexOf(DELIVERY_STATUSES, delivery[s].status)
       IN [num |-> (statusIndex + 1) * 100, den |-> Len(DELIVERY_STATUSES)]

\* ---------------------------------------------------------- refund dialog
\* onChange of the refund amount Input
SetRefundAmount(s, a) ==
  /\ selectedOrder[s] # NULL
  /\ a # refundAmount[s]
  /\ refundAmount' = [refundAmount EXCEPT ![s] = a]
  /\ UNCHANGED <<cartVars, storeVars, orders, selectedOrder, delivery, isUpdating,
                 isUpdatingDelivery, isRefunding, refundReason, toast, reqVars>>

\* onChange of the refund reason Textarea
SetRefundReason(s, t) ==
  /\ selectedOrder[s] # NULL
  /\ t # refundReason[s]
  /\ refundReason' = [refundReason EXCEPT ![s] = t]
  /\ UNCHANGED <<cartVars, storeVars, orders, selectedOrder, delivery, isUpdating,
                 isUpdatingDelivery, isRefunding, refundAmount, toast, reqVars>>

\* a refund row whose amount is not negated
RefundPaymentUnsigned(o, amount, reason, id) ==
  [id |-> id, order_id |-> o.id, amount |-> NumberOf(amount),
   method |-> IF o.payment_method = NullStr THEN "online" ELSE o.payment_method,
   status |-> "refunded", refund_amount |-> NumberOf(amount),
   refund_reason |-> IF reason = "" THEN NullStr ELSE reason]

\* the row handleRefund inserts into payments
RefundPayment(o, amount, reason, id) ==
  [id |-> id, order_id |-> o.id, amount |-> 0 - NumberOf(amount),
   method |-> IF o.payment_method = NullStr THEN "online" ELSE o.payment_method,
   status |-> "refunded", refund_amount |-> NumberOf(amount),
   refund_reason |-> IF reason = "" THEN NullStr ELSE reason]

\* handleRefund up to its first await (the button is disabled while
\* isRefunding or while the amount is empty)
HandleRefund(s) ==
  /\ selectedOrder[s] # NULL
  /\ refundAmount[s] # NoAmount
  /\ ~isRefunding[s]
  /\ Len(dbPayments) < MaxPayments
  /\ isRefunding' = [isRefunding EXCEPT ![s] = TRUE]
  /\ refundReq' = [refundReq EXCEPT ![s] =
                     [phase |-> "insert", selectedOrder |-> selectedOrder[s],
                      refundAmount |-> refundAmount[s], refundReason |-> refundReason[s]]]
  /\ UNCHANGED <<cartVars, storeVars, orders, selectedOrder, delivery, isUpdating,
                 isUpdatingDelivery, refundAmount, refundReason, toast, statusReq,
                 codReq, deliveryReqs, ordersFetch, detailsFetch>>

\* payments.insert({...}) and the code after it, up to the second await
RefundInsertReturn(s, ok) ==
  /\ refundReq[s] # NULL
  /\ refundReq[s].phase = "insert"
  /\ LET r == refundReq[s] IN
     IF ok
       THEN /\ Len(dbPayments) < MaxPayments
            /\ dbPayments' = Append(dbPayments,
                 RefundPayment(r.selectedOrder, r.refundAmount, r.refundReason,
                               Len(dbPayments) + 1))
            /\ refundReq' = [refundReq EXCEPT ![s].phase = "update"]
            /\ UNCHANGED <<toast, isRefunding>>
       ELSE /\ toast' = [toast EXCEPT ![s] = "destructive"]
            /\ isRefunding' = [isRefunding EXCEPT ![s] = FALSE]
            /\ refundReq' = [refundReq EXCEPT ![s] = NULL]
            /\ UNCHANGED dbPayments
  /\ UNCHANGED <<cartVars, dbOrder, dbDelivery, now, orders, selectedOrder, delivery,
                 isUpdating, isUpdatingDelivery, refundAmount, refundReason,
                 statusReq, codReq, deliveryReqs, ordersFetch, detailsFetch>>

\* orders.update({ payment_status: 'refunded' }).eq('id', selectedOrder.id) and
\* the rest of handleRefund; the result of the update is not looked at
RefundUpdateReturn(s, ok) ==
  /\ refundReq[s] # NULL
  /\ refundReq[s].phase = "update"
  /\ dbOrder' = IF ok /\ dbOrder.id = refundReq[s].selectedOrder.id
                  THEN [dbOrder EXCEPT !.payment_status = "refunded"] ELSE dbOrder
  /\ toast' = [toast EXCEPT ![s] = "default"]
  /\ selectedOrder' = [selectedOrder EXCEPT ![s] =
                         [refundReq[s].selectedOrder EXCEPT !.payment_status = "refunded"]]
  /\ refundAmount' = [refundAmount EXCEPT ![s] = NoAmount]
  /\ refundReason' = [refundReason EXCEPT ![s] = ""]
  /\ IssueFetchOrderDetails(s, refundReq[s].selectedOrder.id)
  /\ IssueFetchOrders(s)
  /\ isRefunding' = [isRefunding EXCEPT ![s] = FALSE]
  /\ refundReq' = [refundReq EXCEPT ![s] = NULL]
  /\ UNCHANGED <<cartVars, dbPayments, dbDelivery, now, orders, delivery, isUpdating,
                 isUpdatingDelivery, statusReq, codReq, deliveryReqs>>

\* ------------------------------------------- COD payment-status Select
\* onValueChange up to its first await (the Select is rendered for a COD
\* order only)
HandleCodChange(s, val) ==
  /\ selectedOrder[s] # NULL
  /\ selectedOrder[s].payment_method = "cod"
  /\ codReq[s] = NULL
  /\ codReq' = [codReq EXCEPT ![s] =
                  [phase |-> "update", selectedOrder |-> selectedOrder[s],
                   typedVal |-> val, paymentRecord |-> 0]]
  /\ UNCHANGED <<cartVars, storeVars, localVars, statusReq, refundReq, deliveryReqs,
                 ordersFetch, detailsFetch>>

\* orders.update({ payment_status: typedVal }); the result is not looked at
CodUpdateOrderReturn(s, ok) ==
  /\ codReq[s] # NULL
  /\ codReq[s].phase = "update"
  /\ dbOrder' = IF ok /\ dbOrder.id = codReq[s].selectedOrder.id
                  THEN [dbOrder EXCEPT !.payment_status = codReq[s].typedVal]
                  ELSE dbOrder
  /\ codReq' = [codReq EXCEPT ![s].phase = "select"]
  /\ UNCHANGED <<cartVars, dbPayments, dbDelivery, now, localVars, statusReq, refundReq,
                 deliveryReqs, ordersFetch, detailsFetch>>

\* payments.select('id').eq('order_id', id).eq('method', 'cod').single():
\* the id of the row when exactly one matches, otherwise no data (0)
SingleCodPayment(orderId) ==
  LET m == {i \in DOMAIN dbPayments :
              dbPayments[i].order_id = orderId /\ dbPayments[i].method = "cod"}
  IN IF Cardinality(m) = 1 THEN CHOOSE i \in m : TRUE ELSE 0

\* the end of the COD onValueChange
CodFinish(s) ==
  /\ selectedOrder' = [selectedOrder EXCEPT ![s] =
                         [codReq[s].selectedOrder EXCEPT
                            !.payment_status = codReq[s].typedVal]]
  /\ IssueFetchOrders(s)
  /\ toast' = [toast EXCEPT ![s] = "default"]
  /\ codReq' = [codReq EXCEPT ![s] = NULL]

\* the select of the payment record returns; without a record the handler
\* runs to its end
CodSelectReturn(s, ok) ==
  /\ codReq[s] # NULL
  /\ codReq[s].phase = "select"
  /\ LET rec == IF ok THEN SingleCodPayment(codReq[s].selectedOrder.id) ELSE 0 IN
     IF rec # 0
       THEN /\ codReq' = [codReq EXCEPT ![s].phase = "updatePayment",
                                        ![s].paymentRecord = rec]
            /\ UNCHANGED <<selectedOrder, toast, ordersFetch>>
       ELSE CodFinish(s)
  /\ UNCHANGED <<cartVars, storeVars, orders, delivery, isUpdating, isUpdatingDelivery,
                 isRefunding, refundAmount, refundReason, statusReq, refundReq,
                 deliveryReqs, detailsFetch>>

\* a payment-status update that also rewrites the amount of the row
UpdatePaymentStatusAndAmount(payments, id, val) ==
  [payments EXCEPT ![id].status = val, ![id].amount = 0]

\* payments.update({ status: typedVal }).eq('id', paymentRecord.id)
UpdatePaymentStatus(payments, id, val) ==
  [payments EXCEPT ![id].status = val]

\* the update of the payment record returns, and the end of the handler; the
\* result of the update is not looked at
CodUpdatePaymentReturn(s, ok) ==
  /\ codReq[s] # NULL
  /\ codReq[s].phase = "updatePayment"
  /\ dbPayments' = IF ok
                     THEN UpdatePaymentStatus(dbPayments, codReq[s].paymentRecord,
                                              codReq[s].typedVal)
                     ELSE dbPayments
  /\ CodFinish(s)
  /\ UNCHANGED <<cartVars, dbOrder, dbDelivery, now, orders, delivery, isUpdating,
                 isUpdatingDelivery, isRefunding, refundAmount, refundReason,
                 statusReq, refundReq, deliveryReqs, detailsFetch>>

\* =================================================================== cart
\* ------------------------------------------------------------- totals
RECURSIVE SumItems(_)
\* cartItems.reduce((sum, item) => sum + item.product.price * item.quantity, 0)
SumItems(items) ==
  IF items = <<>> THEN 0
  ELSE SumItems(SubSeq(items, 1, Len(items) - 1))
       + items[Len(items)].product.price * items[Len(items)].quantity

Min(a, b) == IF a <= b THEN a ELSE b

FreeShippingThreshold == 500
DefaultShippingCharge == 50

\* const subtotal
Subtotal == SumItems(cartItems)

\* const discount, for coupon c (or NULL) and subtotal sub;
\* max_discount || Infinity: a max_discount of null or 0 does not cap
DiscountOf(c, sub) ==
  IF c = NULL THEN 0
  ELSE IF c.type = "percentage"
    THEN IF c.max_discount = NoNum \/ c.max_discount = 0
           THEN (sub * c.value) \div 100
           ELSE Min((sub * c.value) \div 100, c.max_discount)
    ELSE c.value

Discount == DiscountOf(appliedCoupon, Subtotal)

\* const shippingCharge
ShippingChargeOf(sub) == IF sub >= FreeShippingThreshold THEN 0 ELSE DefaultShippingCharge

ShippingCharge == ShippingChargeOf(Subtotal)

\* a total that leaves the shipping charge out
TotalWithoutShipping(sub, disc, ship) == sub - disc

\* const total
TotalOf(sub, disc, ship) == sub - disc + ship

Total == TotalOf(Subtotal, Discount, ShippingCharge)

\* ------------------------------------------------------------ fetchCart
\* the cart page is opened: the component state is as constructed and the
\* effect runs fetchCart() up to its first await
CartPageMount ==
  /\ cartItems' = <<>>
  /\ couponCode' = ""
  /\ appliedCoupon' = NULL
  /\ isApplyingCoupon' = FALSE
  /\ cartToast' = "none"
  /\ cartFetch' = "cart"
  /\ qtyReq' = NULL
  /\ removeReq' = NULL
  /\ couponReq' = NULL
  /\ UNCHANGED <<adminVars, catalogVars, cartStoreVars, addReq>>

\* cart.select('id').eq('user_id', user.id).single() returns; without a cart
\* fetchCart ends
FetchCartSelectCartReturn(ok) ==
  /\ cartFetch = "cart"
  /\ cartFetch' = IF ok /\ dbCart THEN "items" ELSE "none"
  /\ UNCHANGED <<adminVars, catalogVars, cartStoreVars, cartLocalVars, qtyReq,
                 removeReq, couponReq, addReq>>

RECURSIVE RowsOf(_)
\* cart_items.select('*, product:products(*)').eq('cart_id', cart.id): the rows
\* of the first n products
RowsOf(n) ==
  IF n = 0 THEN <<>>
  ELSE LET p == ProductIds[n] IN
       IF dbCartItems[p] = 0 THEN RowsOf(n - 1)
       ELSE Append(RowsOf(n - 1),
                   [id |-> p, quantity |-> dbCartItems[p],
                    product |-> [id |-> p, price |-> products[p].price,
                                 stock_quantity |-> products[p].stock_quantity]])

\* the select of the items returns: setCartItems(items || [])
FetchCartSelectItemsReturn(ok) ==
  /\ cartFetch = "items"
  /\ cartItems' = IF ok THEN RowsOf(Len(ProductIds)) ELSE <<>>
  /\ cartFetch' = "none"
  /\ UNCHANGED <<adminVars, catalogVars, cartStoreVars, couponCode, appliedCoupon,
                 isApplyingCoupon, cartToast, qtyReq, removeReq, couponReq, addReq>>

\* ------------------------------------------------------------- render
\* a render that reads the subtotal from the rows of the store instead of the
\* component state
RenderTotalsOfStore ==
  /\ LET sub == SumItems(RowsOf(Len(ProductIds))) IN
     rendered' = [cartItems |-> cartItems, appliedCoupon |-> appliedCoupon,
                  subtotal |-> sub, discount |-> DiscountOf(appliedCoupon, sub),
                  shippingCharge |-> ShippingChargeOf(sub),
                  total |-> TotalOf(sub, DiscountOf(appliedCoupon, sub),
                                    ShippingChargeOf(sub))]
  /\ UNCHANGED <<adminVars, products, coupons, settingsVars, cartStoreVars, cartLocalVars,
                 cartReqVars>>

\* the body of the Cart component is evaluated: subtotal, discount,
\* shippingCharge and total are computed from cartItems and appliedCoupon
RenderTotals ==
  /\ rendered' = [cartItems |-> cartItems, appliedCoupon |-> appliedCoupon,
                  subtotal |-> Subtotal, discount |-> Discount,
                  shippingCharge |-> ShippingCharge, total |-> Total]
  /\ UNCHANGED <<adminVars, products, coupons, settingsVars, cartStoreVars, cartLocalVars,
                 cartReqVars>>

\* ------------------------------------------------------- updateQuantity
\* cartItems.find(i => i.id === itemId): its index, 0 when there is none
FindItem(items, itemId) ==
  IF \E i \in DOMAIN items : items[i].id = itemId
    THEN CHOOSE i \in DOMAIN items :
           items[i].id = itemId /\ \A j \in 1..(i - 1) : items[j].id # itemId
    ELSE 0

\* the stock check of updateQuantity: whether the new quantity is refused
NotEnoughStock(items, itemId, newQuantity) ==
  \/ FindItem(items, itemId) = 0
  \/ newQuantity > items[FindItem(items, itemId)].product.stock_quantity

\* updateQuantity(itemId, newQuantity) up to its await
HandleUpdateQuantity(itemId, newQuantity) ==
  /\ qtyReq = NULL
  /\ newQuantity >= 1
  /\ IF NotEnoughStock(cartItems, itemId, newQuantity)
       THEN /\ cartToast' = "destructive"
            /\ UNCHANGED qtyReq
       ELSE /\ qtyReq' = [itemId |-> itemId, newQuantity |-> newQuantity,
                          cartItems |-> cartItems]
            /\ UNCHANGED cartToast
  /\ UNCHANGED <<adminVars, catalogVars, cartStoreVars, cartItems, couponCode,
                 appliedCoupon, isApplyingCoupon, cartFetch, removeReq, couponReq,
                 addReq>>

\* cartItems.map(i => i.id === itemId ? { ...i, quantity: newQuantity } : i)
SetQuantity(items, itemId, newQuantity) ==
  [i \in DOMAIN items |->
     IF items[i].id = itemId THEN [items[i] EXCEPT !.quantity = newQuantity]
     ELSE items[i]]

\* cart_items.update({ quantity: newQuantity }).eq('id', itemId) and the code
\* after it; the result of the update is not looked at
UpdateQuantityReturn(ok) ==
  /\ qtyReq # NULL
  /\ dbCartItems' = IF ok /\ dbCartItems[qtyReq.itemId] # 0
                      THEN [dbCartItems EXCEPT ![qtyReq.itemId] = qtyReq.newQuantity]
                      ELSE dbCartItems
  /\ cartItems' = SetQuantity(qtyReq.cartItems, qtyReq.itemId, qtyReq.newQuantity)
  /\ qtyReq' = NULL
  /\ UNCHANGED <<adminVars, catalogVars, dbCart, couponCode, appliedCoupon,
                 isApplyingCoupon, cartToast, cartFetch, removeReq, couponReq, addReq>>

\* ----------------------------------------------------------- removeItem
\* removeItem(itemId) up to its await
HandleRemoveItem(itemId) ==
  /\ removeReq = NULL
  /\ \E i \in DOMAIN cartItems : cartItems[i].id = itemId
  /\ removeReq' = [itemId |-> itemId, cartItems |-> cartItems]
  /\ UNCHANGED <<adminVars, catalogVars, cartStoreVars, cartLocalVars, cartFetch,
                 qtyReq, couponReq, addReq>>

\* cartItems.filter(i => i.id !== itemId)
RECURSIVE WithoutItem(_, _)
WithoutItem(items, itemId) ==
  IF items = <<>> THEN <<>>
  ELSE IF Head(items).id = itemId THEN WithoutItem(Tail(items), itemId)
  ELSE <<Head(items)>> \o WithoutItem(Tail(items), itemId)

\* cart_items.delete().eq('id', itemId) and the code after it; the result of
\* the delete is not looked at
RemoveItemReturn(ok) ==
  /\ removeReq # NULL
  /\ dbCartItems' = IF ok THEN [dbCartItems EXCEPT ![removeReq.itemId] = 0]
                    ELSE dbCartItems
  /\ cartItems' = WithoutItem(removeReq.cartItems, removeReq.itemId)
  /\ cartToast' = "default"
  /\ removeReq' = NULL
  /\ UNCHANGED <<adminVars, catalogVars, dbCart, couponCode, appliedCoupon,
                 isApplyingCoupon, cartFetch, qtyReq, couponReq, addReq>>

\* -------------------------------------------------------------- coupons
\* String.prototype.toUpperCase on the codes of the model
ToUpperCase(c) == CASE c = "welcome10" -> "WELCOME10"
                    [] c = "nosuch" -> "NOSUCH"
                    [] OTHER -> c

\* String.prototype.trim on the codes of the model
Trim(c) == IF c = " " THEN "" ELSE c

\* onChange of the coupon Input: setCouponCode(e.target.value.toUpperCase())
SetCouponCode(c) ==
  /\ appliedCoupon = NULL
  /\ cartItems # <<>>
  /\ ToUpperCase(c) # couponCode
  /\ couponCode' = ToUpperCase(c)
  /\ UNCHANGED <<adminVars, catalogVars, cartStoreVars, cartItems, appliedCoupon,
                 isApplyingCoupon, cartToast, cartReqVars>>

\* applyCoupon up to its await (the button is rendered while no coupon is
\* applied and the cart has items, and is disabled while isApplyingCoupon)
HandleApplyCoupon ==
  /\ appliedCoupon = NULL
  /\ cartItems # <<>>
  /\ ~isApplyingCoupon
  /\ Trim(couponCode) # ""
  /\ isApplyingCoupon' = TRUE
  /\ couponReq' = [code |-> ToUpperCase(couponCode), subtotal |-> Subtotal]
  /\ UNCHANGED <<adminVars, catalogVars, cartStoreVars, cartItems, couponCode,
                 appliedCoupon, cartToast, cartFetch, qtyReq, removeReq, addReq>>

\* coupons.select('*').eq('code', code).eq('is_active', true).single()
SingleCoupon(code) ==
  LET m == {c \in coupons : c.code = code /\ c.is_active}
  IN IF Cardinality(m) = 1 THEN CHOOSE c \in m : TRUE ELSE NULL

\* a minimum-order test that also turns away a subtotal equal to the minimum
MinimumOrderNotReached(c, sub) ==
  c.min_order_value # NoNum /\ c.min_order_value # 0 /\ sub <= c.min_order_value

\* couponData.min_order_value && subtotal < couponData.min_order_value
MinimumOrderNotMet(c, sub) ==
  c.min_order_value # NoNum /\ c.min_order_value # 0 /\ sub < c.min_order_value

\* the select of applyCoupon returns, and the rest of applyCoupon
ApplyCouponReturn(ok) ==
  /\ couponReq # NULL
  /\ LET coupon == IF ok THEN SingleCoupon(couponReq.code) ELSE NULL IN
     IF coupon = NULL
       THEN /\ cartToast' = "destructive"
            /\ UNCHANGED appliedCoupon
       ELSE IF MinimumOrderNotMet(coupon, couponReq.subtotal)
         THEN /\ cartToast' = "destructive"
              /\ UNCHANGED appliedCoupon
         ELSE /\ appliedCoupon' = coupon
              /\ cartToast' = "default"
  /\ isApplyingCoupon' = FALSE
  /\ couponReq' = NULL
  /\ UNCHANGED <<adminVars, catalogVars, cartStoreVars, cartItems, couponCode,
                 cartFetch, qtyReq, removeReq, addReq>>

\* removeCoupon
RemoveCoupon ==
  /\ appliedCoupon # NULL
  /\ cartItems # <<>>
  /\ appliedCoupon' = NULL
  /\ couponCode' = ""
  /\ UNCHANGED <<adminVars, catalogVars, cartStoreVars, cartItems, isApplyingCoupon,
                 cartToast, cartReqVars>>

\* ------------------------------------------- handleAddToCart (home page)
\* handleAddToCart(product) up to its first await (the button is rendered for
\* a product in stock)
HandleAddToCart(p) ==
  /\ addReq = NULL
  /\ products[p].stock_quantity > 0
  /\ addReq' = [phase |-> "selectCart", product |-> p, existingItem |-> 0]
  /\ UNCHANGED <<adminVars, catalogVars, cartStoreVars, cartLocalVars, cartFetch,
                 qtyReq, removeReq, couponReq>>

\* cart.select('id').eq('user_id', user.id).single() returns
AddSelectCartReturn(ok) ==
  /\ addReq # NULL
  /\ addReq.phase = "selectCart"
  /\ addReq' = [addReq EXCEPT !.phase = IF ok /\ dbCart THEN "selectItem"
                                        ELSE "insertCart"]
  /\ UNCHANGED <<adminVars, catalogVars, cartStoreVars, cartLocalVars, cartFetch,
                 qtyReq, removeReq, couponReq>>

\* cart.insert({ user_id }).select().single() returns; without a cart the
\* handler ends
AddInsertCartReturn(ok) ==
  /\ addReq # NULL
  /\ addReq.phase = "insertCart"
  /\ IF ok /\ ~dbCart
       THEN /\ dbCart' = TRUE
            /\ addReq' = [addReq EXCEPT !.phase = "selectItem"]
       ELSE /\ addReq' = NULL
            /\ UNCHANGED dbCart
  /\ UNCHANGED <<adminVars, catalogVars, dbCartItems, cartLocalVars, cartFetch,
                 qtyReq, removeReq, couponReq>>

\* cart_items.select('id, quantity').eq('cart_id', ...).eq('product_id', ...)
\* .single() returns: the quantity of the existing row, 0 for no data
AddSelectItemReturn(ok) ==
  /\ addReq # NULL
  /\ addReq.phase = "selectItem"
  /\ addReq' = [addReq EXCEPT !.phase = "write",
                              !.existingItem = IF ok THEN dbCartItems[addReq.product]
                                               ELSE 0]
  /\ UNCHANGED <<adminVars, catalogVars, cartStoreVars, cartLocalVars, cartFetch,
                 qtyReq, removeReq, couponReq>>

\* the quantity handleAddToCart writes for a row that holds quantity q
AddedQuantity(q) == q + 1

\* cart_items.update({ quantity: existingItem.quantity + 1 }) or
\* cart_items.insert({ ..., quantity: 1 }) returns, and the end of the handler
AddWriteReturn(ok) ==
  /\ addReq # NULL
  /\ addReq.phase = "write"
  /\ addReq.existingItem < MaxQty
  /\ dbCartItems' =
       IF ~ok THEN dbCartItems
       ELSE IF addReq.existingItem # 0
         THEN IF dbCartItems[addReq.product] # 0
                THEN [dbCartItems EXCEPT ![addReq.product] = AddedQuantity(addReq.existingItem)]
                ELSE dbCartItems
         ELSE IF dbCartItems[addReq.product] = 0
                THEN [dbCartItems EXCEPT ![addReq.product] = 1]
                ELSE dbCartItems
  /\ cartToast' = "default"
  /\ addReq' = NULL
  /\ UNCHANGED <<adminVars, catalogVars, dbCart, cartItems, couponCode, appliedCoupon,
                 isApplyingCoupon, cartFetch, qtyReq, removeReq, couponReq>>

\* ============================================================== settings
\* what the admin types into the two shipping Inputs of the checkout tab
ThresholdInputs == {300, 500}
ChargeInputs == {50, 80}

\* the settings page is loaded: the component state is as constructed and
\* useEffect(() => { fetchSettings(); }, []) runs
SettingsMount ==
  /\ checkout' = DefaultCheckout
  /\ isSaving' = NullStr
  /\ settingsToast' = "none"
  /\ settingsFetch' = TRUE
  /\ saveReq' = NULL
  /\ UNCHANGED <<adminVars, products, coupons, rendered, dbStoreSettings, cartStoreVars,
                 cartLocalVars, cartReqVars>>

\* store_settings.select('key, value') returns: data.forEach sets the state
\* of each row's key in turn, so the last row of the key stays
FetchSettingsReturn(ok) ==
  /\ settingsFetch
  /\ checkout' = IF ok /\ dbStoreSettings # <<>>
                   THEN dbStoreSettings[Len(dbStoreSettings)] ELSE checkout
  /\ settingsFetch' = FALSE
  /\ UNCHANGED <<adminVars, products, coupons, rendered, dbStoreSettings, isSaving,
                 settingsToast, saveReq, cartStoreVars, cartLocalVars, cartReqVars>>

\* onChange of an Input of the checkout tab: setCheckout({ ...checkout, [field]: v })
\* (the form is not rendered while isLoading)
SetCheckout(field, v) ==
  /\ ~settingsFetch
  /\ checkout[field] # v
  /\ checkout' = [checkout EXCEPT ![field] = v]
  /\ UNCHANGED <<adminVars, products, coupons, rendered, dbStoreSettings, isSaving,
                 settingsToast, settingsFetch, saveReq, cartStoreVars,
                 cartLocalVars, cartReqVars>>

\* handleSave('checkout', checkout) up to its first await (the button is
\* disabled while isSaving === 'checkout')
HandleSave ==
  /\ ~settingsFetch
  /\ isSaving # "checkout"
  /\ isSaving' = "checkout"
  /\ saveReq' = [phase |-> "select", value |-> checkout]
  /\ UNCHANGED <<adminVars, products, coupons, rendered, dbStoreSettings, checkout,
                 settingsToast, settingsFetch, cartStoreVars, cartLocalVars,
                 cartReqVars>>

\* store_settings.select('id').eq('key', key).single() returns: existing is a
\* row when the call succeeds and exactly one row has the key
HandleSaveSelectReturn(ok) ==
  /\ saveReq # NULL
  /\ saveReq.phase = "select"
  /\ saveReq' = [saveReq EXCEPT !.phase =
                   IF ok /\ Len(dbStoreSettings) = 1 THEN "update" ELSE "insert"]
  /\ UNCHANGED <<adminVars, products, coupons, rendered, dbStoreSettings, checkout, isSaving,
                 settingsToast, settingsFetch, cartStoreVars, cartLocalVars,
                 cartReqVars>>

\* update({ value }).eq('key', key) or insert({ key, value }) returns, and the
\* rest of handleSave
HandleSaveWriteReturn(ok) ==
  /\ saveReq # NULL
  /\ saveReq.phase \in {"update", "insert"}
  /\ IF ok
       THEN /\ saveReq.phase = "insert" => Len(dbStoreSettings) < MaxSettingsRows
            /\ dbStoreSettings' =
                 IF saveReq.phase = "update"
                   THEN [i \in DOMAIN dbStoreSettings |-> saveReq.value]
                   ELSE Append(dbStoreSettings, saveReq.value)
            /\ settingsToast' = "default"
       ELSE /\ settingsToast' = "destructive"
            /\ UNCHANGED dbStoreSettings
  /\ isSaving' = NullStr
  /\ saveReq' = NULL
  /\ UNCHANGED <<adminVars, products, coupons, rendered, checkout, settingsFetch,
                 cartStoreVars, cartLocalVars, cartReqVars>>

\* ----------------------------------------------------------- environment
\* The admin of session s starts an operation only when the previous one has
\* finished and the views have been refreshed.
Idle(s) ==
  /\ statusReq[s] = NULL
  /\ refundReq[s] = NULL
  /\ codReq[s] = NULL
  /\ deliveryReqs[s] = <<>>
  /\ ordersFetch[s] = <<>>
  /\ detailsFetch[s] = <<>>

\* the page is loaded again when the list could not be loaded
Reload(s) == Idle(s) /\ orders[s] = <<>> /\ Mount(s)

Navigate(s) ==
  \/ Idle(s) /\ HandleRowClick(s)
  \/ Idle(s) /\ HandleBack(s)

FetchReturns(s) ==
  \/ \E i \in DOMAIN ordersFetch[s] : FetchOrdersRead(s, i)
  \/ \E i \in DOMAIN ordersFetch[s] : FetchOrdersReturn(s, i)
  \/ \E i \in DOMAIN detailsFetch[s] : FetchOrderDetailsRead(s, i)
  \/ \E i \in DOMAIN detailsFetch[s] : FetchOrderDetailsReturn(s, i)

RefundReturns(s) ==
  \/ \E ok \in BOOLEAN : RefundInsertReturn(s, ok)
  \/ \E ok \in BOOLEAN : RefundUpdateReturn(s, ok)

CodReturns(s) ==
  \/ \E ok \in BOOLEAN : CodUpdateOrderReturn(s, ok)
  \/ \E ok \in BOOLEAN : CodSelectReturn(s, ok)
  \/ \E ok \in BOOLEAN : CodUpdatePaymentReturn(s, ok)

Admin == "s1"

\* ------------------------------------------------------------------ Spec
\* Refunds: one admin session refunding the order.
InitRefund == Init /\ dbDelivery = NULL

Next ==
  \/ Reload(Admin)
  \/ Navigate(Admin)
  \/ FetchReturns(Admin)
  \/ Idle(Admin) /\ \E a \in RefundAmountInputs : SetRefundAmount(Admin, a)
  \/ Idle(Admin) /\ HandleRefund(Admin)
  \/ RefundReturns(Admin)

Spec == InitRefund /\ [][Next]_vars

\* ------------------------------------------------------- SpecRefundEntry
\* Refunds with a reason: one admin session refunding positive amounts of a
\* paid order whose capture is in the ledger.
InitRefundEntry ==
  /\ Init
  /\ dbOrder.payment_status = "paid"
  /\ dbOrder.payment_method = "online"
  /\ dbPayments = <<CapturePayment(dbOrder)>>
  /\ dbDelivery = NULL

NextRefundEntry ==
  \/ Navigate(Admin)
  \/ FetchReturns(Admin)
  \/ Idle(Admin) /\ \E n \in 1..MaxAmount : SetRefundAmount(Admin, <<n>>)
  \/ Idle(Admin) /\ \E t \in RefundReasonInputs : SetRefundReason(Admin, t)
  \/ Idle(Admin) /\ HandleRefund(Admin)
  \/ RefundReturns(Admin)

SpecRefundEntry == InitRefundEntry /\ [][NextRefundEntry]_vars

\* ------------------------------------------------------------- SpecFetch
\* Fetch after write: one admin session changing the order's status again
\* while the fetchOrders calls of earlier changes are still in flight.
InitFetch ==
  /\ Init
  /\ dbOrder.total = 1
  /\ dbOrder.payment_status = "pending"
  /\ dbOrder.payment_method = "cod"
  /\ dbPayments = <<>>
  /\ dbDelivery = NULL

NextFetch ==
  \/ Navigate(Admin)
  \/ FetchReturns(Admin)
  \/ /\ detailsFetch[Admin] = <<>>
     /\ Len(ordersFetch[Admin]) < MaxFetches
     /\ \E st \in {"confirmed", "packed"} : HandleStatusUpdate(Admin, st)
  \/ \E ok \in BOOLEAN : StatusUpdateReturn(Admin, ok)

SpecFetch == InitFetch /\ [][NextFetch]_vars

\* ------------------------------------------------------------ SpecFinish
\* Termination: one admin session on the detail view of a paid order with a
\* delivery, changing the status, updating the delivery and refunding.  The
\* store answers every write it was sent, accepting or rejecting it.
InitFinish ==
  /\ Init
  /\ dbOrder.total = 1
  /\ dbOrder.payment_status = "paid"
  /\ dbOrder.payment_method = "online"
  /\ dbPayments = <<CapturePayment(dbOrder)>>
  /\ dbDelivery # NULL

StatusAnswered == \E ok \in BOOLEAN : StatusUpdateReturn(Admin, ok)

DeliveryAnswered ==
  \E i \in DOMAIN deliveryReqs[Admin] : \E ok \in BOOLEAN : DeliveryUpdateReturn(Admin, i, ok)

RefundInsertAnswered == \E ok \in BOOLEAN : RefundInsertReturn(Admin, ok)

RefundUpdateAnswered == \E ok \in BOOLEAN : RefundUpdateReturn(Admin, ok)

NextFinish ==
  \/ Navigate(Admin)
  \/ FetchReturns(Admin)
  \/ Idle(Admin) /\ \E st \in {"confirmed", "cancelled"} : HandleStatusUpdate(Admin, st)
  \/ StatusAnswered
  \/ Idle(Admin) /\ HandleDeliveryUpdate(Admin, "status", "shipped")
  \/ Idle(Admin) /\ HandleDeliveryUpdate(Admin, "partner_name", "BlueDart")
  \/ DeliveryAnswered
  \/ Idle(Admin) /\ SetRefundAmount(Admin, <<1>>)
  \/ Idle(Admin) /\ HandleRefund(Admin)
  \/ RefundInsertAnswered
  \/ RefundUpdateAnswered

SpecFinish ==
  /\ InitFinish
  /\ [][NextFinish]_vars
  /\ WF_vars(StatusAnswered)
  /\ WF_vars(DeliveryAnswered)
  /\ WF_vars(RefundInsertAnswered)
  /\ WF_vars(RefundUpdateAnswered)

\* ----------------------------------------------------------- SpecDetails
\* Navigation: one admin session opening the order and going back to the
\* list while the fetchOrderDetails of earlier clicks are still in flight.
InitDetails == Init /\ dbDelivery # NULL

NextDetails ==
  \/ FetchReturns(Admin)
  \/ Len(detailsFetch[Admin]) < MaxFetches /\ HandleRowClick(Admin)
  \/ HandleBack(Admin)

SpecDetails == InitDetails /\ [][NextDetails]_vars

\* ------------------------------------------------------------ SpecStatus
\* Order lifecycle: one admin session changing the order's status.
NextStatus ==
  \/ Reload(Admin)
  \/ Navigate(Admin)
  \/ FetchReturns(Admin)
  \/ Idle(Admin) /\ \E st \in OrderStatus : HandleStatusUpdate(Admin, st)
  \/ \E ok \in BOOLEAN : StatusUpdateReturn(Admin, ok)

SpecStatus == Init /\ [][NextStatus]_vars

\* --------------------------------------------------------------- SpecCod
\* Cash on delivery: one admin session changing the payment status of a COD
\* order, refunding it and confirming it.
InitCod ==
  /\ Init
  /\ dbOrder.payment_method = "cod"
  /\ dbOrder.total = 1
  /\ dbDelivery = NULL

NextCod ==
  \/ Reload(Admin)
  \/ Navigate(Admin)
  \/ FetchReturns(Admin)
  \/ Idle(Admin) /\ \E v \in CodSelectItems : HandleCodChange(Admin, v)
  \/ CodReturns(Admin)
  \/ Idle(Admin) /\ SetRefundAmount(Admin, <<1>>)
  \/ Idle(Admin) /\ HandleRefund(Admin)
  \/ RefundReturns(Admin)
  \/ Idle(Admin) /\ HandleStatusUpdate(Admin, "confirmed")
  \/ \E ok \in BOOLEAN : StatusUpdateReturn(Admin, ok)

SpecCod == InitCod /\ [][NextCod]_vars

\* ---------------------------------------------------------- SpecDelivery
\* Delivery tracking: one admin session updating the delivery of the order.
InitDelivery ==
  /\ Init
  /\ dbOrder.total = 1
  /\ dbOrder.payment_status = "pending"
  /\ dbPayments = <<>>

NextDelivery ==
  \/ Reload(Admin)
  \/ Navigate(Admin)
  \/ FetchReturns(Admin)
  \/ Idle(Admin) /\ \E v \in DeliveryStatus : HandleDeliveryUpdate(Admin, "status", v)
  \/ Idle(Admin) /\ HandleDeliveryUpdate(Admin, "partner_name", "BlueDart")
  \/ \E i \in DOMAIN deliveryReqs[Admin] : \E ok \in BOOLEAN :
       DeliveryUpdateReturn(Admin, i, ok)

SpecDelivery == InitDelivery /\ [][NextDelivery]_vars

\* ------------------------------------------------------------ SpecTyping
\* Delivery form: one admin session changing fields of the delivery while the
\* updates of earlier changes are still in flight; the store accepts every
\* update.
InitTyping ==
  /\ InitDelivery
  /\ dbOrder.payment_method = "cod"
  /\ dbDelivery # NULL

NextTyping ==
  \/ Navigate(Admin)
  \/ FetchReturns(Admin)
  \/ /\ Len(deliveryReqs[Admin]) < MaxUpdates
     /\ detailsFetch[Admin] = <<>>
     /\ \/ \E v \in {"shipped", "delivered"} : HandleDeliveryUpdate(Admin, "status", v)
        \/ HandleDeliveryUpdate(Admin, "partner_name", "BlueDart")
        \/ HandleDeliveryUpdate(Admin, "tracking_number", "TN1")
  \/ \E i \in DOMAIN deliveryReqs[Admin] : DeliveryUpdateReturn(Admin, i, TRUE)

SpecTyping == InitTyping /\ [][NextTyping]_vars

\* -------------------------------------------------------------- SpecConc
\* Two admin sessions changing the status of the same order.
InitConc ==
  /\ Init
  /\ dbOrder.total = 1
  /\ dbOrder.payment_status = "pending"
  /\ dbOrder.payment_method = "cod"
  /\ dbPayments = <<>>
  /\ dbDelivery = NULL

NextConc ==
  \E s \in Sessions :
    \/ Navigate(s)
    \/ FetchReturns(s)
    \/ Idle(s) /\ \E st \in OrderStatus : HandleStatusUpdate(s, st)
    \/ \E ok \in BOOLEAN : StatusUpdateReturn(s, ok)

SpecConc == InitConc /\ [][NextConc]_vars

\* --------------------------------------------------------------- SpecCart
\* The customer on the cart page: quantities, removal and coupons.  The
\* customer starts an operation only when the previous one has finished.
CartIdle ==
  /\ cartFetch = "none"
  /\ qtyReq = NULL
  /\ removeReq = NULL
  /\ couponReq = NULL
  /\ addReq = NULL

\* the quantity buttons of the cart page: minus is disabled at quantity 1,
\* plus is disabled once the quantity has reached the stock quantity
ClickMinus(i) ==
  /\ CartIdle
  /\ cartItems[i].quantity > 1
  /\ HandleUpdateQuantity(cartItems[i].id, cartItems[i].quantity - 1)

ClickPlus(i) ==
  /\ CartIdle
  /\ cartItems[i].quantity < cartItems[i].product.stock_quantity
  /\ HandleUpdateQuantity(cartItems[i].id, cartItems[i].quantity + 1)

FetchCartReturns ==
  \/ \E ok \in BOOLEAN : FetchCartSelectCartReturn(ok)
  \/ \E ok \in BOOLEAN : FetchCartSelectItemsReturn(ok)

InitCartPage == AdminAtRest /\ InitCart

NextCart ==
  \/ CartIdle /\ cartItems = <<>> /\ CartPageMount
  \/ FetchCartReturns
  \/ \E i \in DOMAIN cartItems : ClickMinus(i)
  \/ \E i \in DOMAIN cartItems : ClickPlus(i)
  \/ \E ok \in BOOLEAN : UpdateQuantityReturn(ok)
  \/ CartIdle /\ \E i \in DOMAIN cartItems : HandleRemoveItem(cartItems[i].id)
  \/ \E ok \in BOOLEAN : RemoveItemReturn(ok)
  \/ CartIdle /\ \E c \in CouponCodeInputs : SetCouponCode(c)
  \/ CartIdle /\ HandleApplyCoupon
  \/ \E ok \in BOOLEAN : ApplyCouponReturn(ok)
  \/ CartIdle /\ RemoveCoupon

SpecCart == InitCartPage /\ [][NextCart]_vars

\* ------------------------------------------------------------- SpecTotals
\* The totals of the cart page: the customer changes quantities and applies
\* and removes a coupon, and the page is rendered in between.
InitTotals ==
  /\ InitCartPage
  /\ dbCart
  /\ \A p \in Products : products[p].stock_quantity = MaxStock /\ dbCartItems[p] = 1
  /\ \A c \in coupons : c.is_active /\ c.min_order_value = NoNum

NextTotals ==
  \/ FetchCartReturns
  \/ \E i \in DOMAIN cartItems : ClickMinus(i)
  \/ \E i \in DOMAIN cartItems : ClickPlus(i)
  \/ \E ok \in BOOLEAN : UpdateQuantityReturn(ok)
  \/ CartIdle /\ SetCouponCode("welcome10")
  \/ CartIdle /\ HandleApplyCoupon
  \/ \E ok \in BOOLEAN : ApplyCouponReturn(ok)
  \/ CartIdle /\ RemoveCoupon
  \/ RenderTotals

SpecTotals == InitTotals /\ [][NextTotals]_vars

\* -------------------------------------------------------------- SpecStock
\* The customer adding products on the home page and changing quantities on
\* the cart page.
InitStock ==
  /\ AdminAtRest
  /\ InitCart
  /\ coupons = {CHOOSE c \in Coupons : TRUE}
  /\ \A p \in Products : products[p].price = 200
  /\ \A p \in Products : dbCartItems[p] = 0

AddReturns ==
  \/ \E ok \in BOOLEAN : AddSelectCartReturn(ok)
  \/ \E ok \in BOOLEAN : AddInsertCartReturn(ok)
  \/ \E ok \in BOOLEAN : AddSelectItemReturn(ok)
  \/ \E ok \in BOOLEAN : AddWriteReturn(ok)

NextStock ==
  \/ CartIdle /\ \E p \in Products : HandleAddToCart(p)
  \/ AddReturns
  \/ CartIdle /\ CartPageMount
  \/ FetchCartReturns
  \/ \E i \in DOMAIN cartItems : ClickMinus(i)
  \/ \E i \in DOMAIN cartItems : ClickPlus(i)
  \/ \E ok \in BOOLEAN : UpdateQuantityReturn(ok)

SpecStock == InitStock /\ [][NextStock]_vars

\* ----------------------------------------------------------- SpecShipping
\* The admin saving the checkout settings while the customer looks at the
\* cart page and changes quantities.
InitShipping ==
  /\ AdminAtRest
  /\ InitCart
  /\ coupons = {CHOOSE c \in Coupons : TRUE}
  /\ \A p \in Products : products[p] = [price |-> 200, stock_quantity |-> 2]
  /\ dbCart
  /\ \A p \in Products : dbCartItems[p] = 1

SettingsIdle == ~settingsFetch /\ saveReq = NULL

NextShipping ==
  \/ SettingsIdle /\ SettingsMount
  \/ \E ok \in BOOLEAN : FetchSettingsReturn(ok)
  \/ SettingsIdle /\ \E v \in ThresholdInputs : SetCheckout("free_shipping_threshold", v)
  \/ SettingsIdle /\ \E v \in ChargeInputs : SetCheckout("default_shipping_charge", v)
  \/ SettingsIdle /\ HandleSave
  \/ \E ok \in BOOLEAN : HandleSaveSelectReturn(ok)
  \/ \E ok \in BOOLEAN : HandleSaveWriteReturn(ok)
  \/ FetchCartReturns
  \/ \E i \in DOMAIN cartItems : ClickMinus(i)
  \/ \E i \in DOMAIN cartItems : ClickPlus(i)
  \/ \E ok \in BOOLEAN : UpdateQuantityReturn(ok)

SpecShipping == InitShipping /\ [][NextShipping]_vars

\* ================================================================= claims
\* the edges of the order lifecycle: new -> confirmed -> packed -> shipped ->
\* delivered, and cancelled or returned from any status before delivered
AllowedOrderEdge(from, to) ==
  \/ <<from, to>> \in {<<"new", "confirmed">>, <<"confirmed", "packed">>,
                       <<"packed", "shipped">>, <<"shipped", "delivered">>}
  \/ from \in {"new", "confirmed", "packed", "shipped"} /\ to \in {"cancelled", "returned"}

\* C1: a status update whose (stored status, target) pair is not an allowed
\* edge is reported as a failure and leaves the stored status as it was.
C1_InvalidTransitionRejected ==
  [][(/\ statusReq[Admin] # NULL
      /\ statusReq'[Admin] = NULL
      /\ ~AllowedOrderEdge(dbOrder.status, statusReq[Admin].newStatus))
     => (dbOrder'.status = dbOrder.status /\ toast'[Admin] = "destructive")]_vars

RECURSIVE RefundedSum(_)
\* the sum of refund_amount over the ledger
RefundedSum(payments) ==
  IF payments = <<>> THEN 0
  ELSE payments[1].refund_amount + RefundedSum(Tail(payments))

\* C2: the running sum of refund_amount over the order's ledger never exceeds
\* the order's total.
C2_RefundsWithinTotal == RefundedSum(dbPayments) <= dbOrder.total

\* C3: the total the cart page computes is never negative.
C3_TotalNonNegative == Total >= 0

\* C4: once the stored delivery status is delivered or failed, no step changes
\* it.
C4_DeliveryTerminal ==
  [][(dbDelivery # NULL /\ dbDelivery.status \in {"delivered", "failed"})
     => dbDelivery'.status = dbDelivery.status]_vars

\* C5: when a COD payment-status change to paid has finished, the ledger holds
\* a COD entry of the order whose status is the order's payment_status.
C5_CodPaidHasLedgerEntry ==
  [][(/\ codReq[Admin] # NULL
      /\ codReq'[Admin] = NULL
      /\ codReq[Admin].typedVal = "paid")
     => \E i \in DOMAIN dbPayments' :
          /\ dbPayments'[i].order_id = dbOrder'.id
          /\ dbPayments'[i].method = "cod"
          /\ dbPayments'[i].status = dbOrder'.payment_status]_vars

CodStatusRewrite(i) ==
  \E s \in Sessions :
    /\ codReq[s] # NULL
    /\ codReq[s].phase = "updatePayment"
    /\ codReq[s].paymentRecord = i
    /\ dbPayments[i].method = "cod"
    /\ dbPayments'[i] = [dbPayments[i] EXCEPT !.status = codReq[s].typedVal]

C7_NoBlindOverwrite ==
  [][\A s \in Sessions :
       (/\ statusReq[s] # NULL
        /\ statusReq'[s] = NULL
        /\ dbOrder'.status # dbOrder.status)
       => statusReq[s].selectedOrder.status = dbOrder.status]_vars

\* C8: when handleRefund finishes after its insert was accepted, the order's
\* payment_status is refunded, or the entry has been taken back, or the
\* failure is shown.
C8_RefundAllOrNothing ==
  [][\A s \in Sessions :
       (/\ refundReq[s] # NULL
        /\ refundReq'[s] = NULL
        /\ refundReq[s].phase = "update")
       => \/ dbOrder'.payment_status = "refunded"
          \/ Len(dbPayments') < Len(dbPayments)
          \/ toast'[s] = "destructive"]_vars

\* C9: no stored cart row and no displayed cart item holds a quantity above
\* the product's stock_quantity.
C9_QuantityWithinStock ==
  /\ \A p \in Products : dbCartItems[p] <= products[p].stock_quantity
  /\ \A i \in DOMAIN cartItems :
       cartItems[i].quantity <= products[cartItems[i].id].stock_quantity

\* C10: once the stored order status is delivered, cancelled or returned, no
\* step changes it.
C10_OrderTerminal ==
  [][dbOrder.status \in {"delivered", "cancelled", "returned"}
     => dbOrder'.status = dbOrder.status]_vars

\* C11: a refund call whose amount is zero or negative appends no ledger
\* entry, leaves the order's payment_status as it was and shows a failure.
C11_NonPositiveRefundRejected ==
  [][\A s \in Sessions :
       (/\ refundReq[s] # NULL
        /\ NumberOf(refundReq[s].refundAmount) <= 0
        /\ refundReq'[s] # refundReq[s])
       => /\ dbPayments' = dbPayments
          /\ dbOrder'.payment_status = dbOrder.payment_status
          /\ toast'[s] = "destructive"]_vars

\* C12: whenever the cart page shows a cart with items, the discount it
\* computes is at least 0 and at most the subtotal.
C12_DiscountWithinSubtotal ==
  cartItems # <<>> => (0 <= Discount /\ Discount <= Subtotal)

\* C13: while a percentage coupon whose max_discount is set (0 included) is
\* applied, the discount the cart page computes is at most max_discount.
C13_PercentageCapped ==
  (/\ cartItems # <<>>
   /\ appliedCoupon # NULL
   /\ appliedCoupon.type = "percentage"
   /\ appliedCoupon.max_discount # NoNum)
  => Discount <= appliedCoupon.max_discount

\* the coupon can be applied to a cart of subtotal sub: it is active and its
\* minimum order value, when set, is reached
Eligible(c, sub) ==
  c.is_active /\ (c.min_order_value = NoNum \/ sub >= c.min_order_value)

\* C14: for a fixed coupon of the store whose code the customer applies, with
\* the subtotal the page showed when Apply was pressed: if the coupon is
\* active and the subtotal reaches its minimum order value, the answered
\* lookup applies it and the discount is the coupon's value; if it is inactive
\* or the subtotal is below the minimum, applyCoupon ends with a failure
\* shown, no coupon applied and a discount of 0.
C14_FixedCoupon ==
  [][\A c \in coupons :
       (c.type = "fixed" /\ couponReq # NULL /\ c.code = couponReq.code)
       => /\ (Eligible(c, couponReq.subtotal) /\ ApplyCouponReturn(TRUE))
             => (appliedCoupon' = c /\ Discount' = c.value /\ cartToast' = "default")
          /\ (~Eligible(c, couponReq.subtotal) /\ couponReq' = NULL)
             => (appliedCoupon' = NULL /\ Discount' = 0 /\ cartToast' = "destructive")]_vars

\* C14 witness: a fixed coupon with a minimum order value has been applied to
\* a cart whose subtotal is exactly the minimum, and the discount is its value.
C14_Witness ==
  /\ appliedCoupon # NULL
  /\ appliedCoupon.type = "fixed"
  /\ appliedCoupon.min_order_value = 400
  /\ Subtotal = 400
  /\ Discount = appliedCoupon.value
  /\ cartToast = "default"
  /\ couponReq = NULL

\* the shipping charge of a cart of subtotal sub under the checkout settings cfg
ConfiguredShippingCharge(cfg, sub) ==
  IF sub >= cfg.free_shipping_threshold THEN 0 ELSE cfg.default_shipping_charge

\* C15: the shipping charge the cart page computes is the one of the checkout
\* settings the admin has saved: 0 when the subtotal reaches the saved
\* free_shipping_threshold, the saved default_shipping_charge otherwise.
C15_ShippingFollowsSettings ==
  \A i \in DOMAIN dbStoreSettings :
    cartItems # <<>> =>
      ShippingCharge = ConfiguredShippingCharge(dbStoreSettings[i], Subtotal)

\* C16: the progress shown for a loaded delivery is exactly 100% when its
\* status is delivered, and for no other status.
C16_DeliveredIsFull ==
  delivery[Admin] # NULL =>
    (GetDeliveryProgress(Admin).num = 100 * GetDeliveryProgress(Admin).den
       <=> delivery[Admin].status = "delivered")

\* C17: once the stored delivery has a delivered_at, no step changes it.
C17_DeliveredAtWriteOnce ==
  [][(dbDelivery # NULL /\ dbDelivery.delivered_at # NoTime)
     => dbDelivery'.delivered_at = dbDelivery.delivered_at]_vars

\* C18: a stored delivery whose status is delivered has a delivered_at; a
\* delivered_at that is set is never unset; and delivered_at is set or changed
\* only by an accepted update of the status to delivered, which leaves the
\* status delivered.  So delivered_at is set exactly when the status is or has
\* been delivered, and updates of other fields, updates of the status to
\* another value and rejected writes never set it.
C18_DeliveredAtIffDelivered ==
  [][dbDelivery # NULL =>
       /\ dbDelivery.status = "delivered" => dbDelivery.delivered_at # NoTime
       /\ dbDelivery'.status = "delivered" => dbDelivery'.delivered_at # NoTime
       /\ dbDelivery.delivered_at # NoTime => dbDelivery'.delivered_at # NoTime
       /\ dbDelivery'.delivered_at # dbDelivery.delivered_at =>
            /\ dbDelivery'.status = "delivered"
            /\ \E s \in Sessions : \E i \in DOMAIN deliveryReqs[s] :
                 /\ deliveryReqs[s][i].updateData.field = "status"
                 /\ deliveryReqs[s][i].updateData.value = "delivered"
                 /\ DeliveryUpdateReturn(s, i, TRUE)]_vars

\* C18 witness: the delivery has been delivered and has since been moved to
\* picked and given a partner; its delivered_at is still set.
C18_Witness ==
  /\ dbDelivery # NULL
  /\ dbDelivery.status = "picked"
  /\ dbDelivery.partner_name = "BlueDart"
  /\ dbDelivery.delivered_at # NoTime

\* C19: when the stored delivery is pending and the store accepts an update of
\* its status to delivered, the stored status becomes delivered, delivered_at
\* becomes the time the handler read when it was called, and the admin is
\* shown a success.
C19_PendingToDelivered ==
  [][\A s \in Sessions : \A i \in DOMAIN deliveryReqs[s] :
       (/\ dbDelivery # NULL
        /\ dbDelivery.status = "pending"
        /\ deliveryReqs[s][i].updateData.field = "status"
        /\ deliveryReqs[s][i].updateData.value = "delivered"
        /\ DeliveryUpdateReturn(s, i, TRUE))
       => /\ dbDelivery'.status = "delivered"
          /\ deliveryReqs[s][i].updateData.delivered_at # NoTime
          /\ dbDelivery'.delivered_at = deliveryReqs[s][i].updateData.delivered_at
          /\ toast'[s] = "default"]_vars

\* C19 witness: the delivery is delivered with the time of the first call of
\* new Date(), nothing else of it has been edited, and the admin sees it.
C19_Witness ==
  /\ dbDelivery # NULL
  /\ dbDelivery.status = "delivered"
  /\ dbDelivery.delivered_at = 1
  /\ dbDelivery.partner_name = NullStr
  /\ delivery[Admin] = dbDelivery
  /\ toast[Admin] = "default"
  /\ deliveryReqs[Admin] = <<>>

\* C20: when the store accepts the insert of a refund of a positive amount a,
\* exactly one entry is appended to the ledger, for the order, with status
\* refunded, amount -a, refund_amount a and the reason typed (null when none
\* was typed), and the entries before it stay as they were; when the store
\* then accepts the update of the order, the order's payment_status is
\* refunded, whether the refund was partial or full.
C20_RefundEntry ==
  [][\A s \in Sessions :
       refundReq[s] # NULL =>
         LET r == refundReq[s]
             a == NumberOf(r.refundAmount)
             n == Len(dbPayments)
         IN /\ (a > 0 /\ r.phase = "insert" /\ RefundInsertReturn(s, TRUE))
               => /\ Len(dbPayments') = n + 1
                  /\ \A i \in 1..n : dbPayments'[i] = dbPayments[i]
                  /\ dbPayments'[n + 1].order_id = r.selectedOrder.id
                  /\ dbPayments'[n + 1].status = "refunded"
                  /\ dbPayments'[n + 1].amount = 0 - a
                  /\ dbPayments'[n + 1].refund_amount = a
                  /\ dbPayments'[n + 1].refund_reason =
                       (IF r.refundReason = "" THEN NullStr ELSE r.refundReason)
            /\ (a > 0 /\ r.phase = "update" /\ RefundUpdateReturn(s, TRUE))
               => /\ dbOrder'.payment_status = "refunded"
                  /\ dbPayments' = dbPayments]_vars

\* C20 witness: a partial refund of 1 with a reason has been processed on a
\* paid order of total 2.
C20_Witness ==
  /\ dbOrder.total = 2
  /\ dbOrder.payment_status = "refunded"
  /\ Len(dbPayments) = 2
  /\ dbPayments[1].status = "paid"
  /\ dbPayments[2].status = "refunded"
  /\ dbPayments[2].amount = 0 - 1
  /\ dbPayments[2].refund_amount = 1
  /\ dbPayments[2].refund_reason = "damaged"
  /\ refundReq[Admin] = NULL

\* C21: when the store rejects the write of a mutating operation, the step
\* that receives the rejection shows a failure and leaves the locally held
\* state as it was.  The operations are updateQuantity and removeItem of the
\* cart, the order status update, the delivery update, both writes of a
\* refund and both writes of the COD payment-status change.
C21_WriteFailuresReported ==
  [][/\ UpdateQuantityReturn(FALSE)
          => (cartToast' = "destructive" /\ cartItems' = cartItems)
     /\ RemoveItemReturn(FALSE)
          => (cartToast' = "destructive" /\ cartItems' = cartItems)
     /\ \A s \in Sessions :
          /\ StatusUpdateReturn(s, FALSE)
               => (toast'[s] = "destructive" /\ selectedOrder'[s] = selectedOrder[s])
          /\ \A i \in DOMAIN deliveryReqs[s] :
               DeliveryUpdateReturn(s, i, FALSE)
                 => (toast'[s] = "destructive" /\ delivery'[s] = delivery[s])
          /\ (RefundInsertReturn(s, FALSE) \/ RefundUpdateReturn(s, FALSE))
               => (toast'[s] = "destructive" /\ selectedOrder'[s] = selectedOrder[s])
          /\ (CodUpdateOrderReturn(s, FALSE) \/ CodUpdatePaymentReturn(s, FALSE))
               => (toast'[s] = "destructive" /\ selectedOrder'[s] = selectedOrder[s])]_vars

\* C22: an accepted status update leaves the selected-order view showing the
\* stored status, and when the last outstanding fetchOrders response is put
\* into the orders list, the list shows the stored status of the order.
C22_FetchAfterWrite ==
  [][/\ (statusReq[Admin] # NULL /\ statusReq'[Admin] = NULL /\ dbOrder' # dbOrder)
          => selectedOrder'[Admin].status = dbOrder'.status
     /\ (orders'[Admin] # orders[Admin] /\ ordersFetch'[Admin] = <<>>)
          => \A i \in DOMAIN orders'[Admin] :
               orders'[Admin][i].id = dbOrder.id
                 => orders'[Admin][i].status = dbOrder.status]_vars

\* C23: a status update writes nothing when it starts, and when its write
\* returns the stored order differs from before at most in its status (not at
\* all when the write was rejected), and the ledger and the delivery record
\* are as before.
C23_StatusUpdateFrame ==
  [][\A s \in Sessions :
       /\ (statusReq[s] = NULL /\ statusReq'[s] # NULL)
            => (dbOrder' = dbOrder /\ dbPayments' = dbPayments /\ dbDelivery' = dbDelivery)
       /\ \A ok \in BOOLEAN :
            StatusUpdateReturn(s, ok)
              => /\ dbOrder' = [dbOrder EXCEPT !.status =
                                  IF ok THEN statusReq[s].newStatus ELSE @]
                 /\ dbPayments' = dbPayments
                 /\ dbDelivery' = dbDelivery]_vars

\* C23 witness: a paid order with a ledger entry and a delivery record has
\* been cancelled; payment_status, ledger and delivery are those of the start.
C23_Witness ==
  /\ dbOrder.status = "cancelled"
  /\ dbOrder.payment_status = "paid"
  /\ dbOrder.total = MaxTotal
  /\ dbPayments = <<CapturePayment([dbOrder EXCEPT !.status = "new"])>>
  /\ dbDelivery = NewDelivery(dbOrder)
  /\ selectedOrder[Admin] = dbOrder
  /\ toast[Admin] = "default"

\* C24 (parts): a started status update, delivery update or refund comes to
\* its end: the busy flag it raised is lowered again.
BusyFlagsReset ==
  /\ isUpdating[Admin] ~> ~isUpdating[Admin]
  /\ isUpdatingDelivery[Admin] ~> ~isUpdatingDelivery[Admin]
  /\ isRefunding[Admin] ~> ~isRefunding[Admin]

\* each answer of the store ends the step that sent the write: the write is
\* not sent a second time
NoRetry ==
  [][/\ \A ok \in BOOLEAN : StatusUpdateReturn(Admin, ok) => statusReq'[Admin] = NULL
     /\ \A ok \in BOOLEAN : \A i \in DOMAIN deliveryReqs[Admin] :
          DeliveryUpdateReturn(Admin, i, ok)
            => Len(deliveryReqs'[Admin]) = Len(deliveryReqs[Admin]) - 1
     /\ \A ok \in BOOLEAN : RefundInsertReturn(Admin, ok)
          => refundReq'[Admin] = NULL \/ refundReq'[Admin].phase = "update"
     /\ \A ok \in BOOLEAN : RefundUpdateReturn(Admin, ok) => refundReq'[Admin] = NULL]_vars

\* a write the store rejected ends in the destructive toast
RejectedWriteReported ==
  [][/\ StatusUpdateReturn(Admin, FALSE) => toast'[Admin] = "destructive"
     /\ \A i \in DOMAIN deliveryReqs[Admin] :
          DeliveryUpdateReturn(Admin, i, FALSE) => toast'[Admin] = "destructive"
     /\ RefundInsertReturn(Admin, FALSE) => toast'[Admin] = "destructive"
     /\ RefundUpdateReturn(Admin, FALSE) => toast'[Admin] = "destructive"]_vars

\* C24: every started status update, delivery update and refund finishes,
\* whether the store accepts or rejects the write: its busy flag (isUpdating,
\* isUpdatingDelivery, isRefunding) is eventually false again, the write of a
\* step is attempted once, and a rejected write is reported as an error.
C24_EveryUpdateFinishes == BusyFlagsReset /\ NoRetry /\ RejectedWriteReported

\* C25: with no coupon applied the discount is 0 and the total is the
\* subtotal plus the shipping charge; a cart of one item of price 200 and
\* quantity 2 has subtotal 400, shipping charge 50 and total 450.
C25_NoCouponTotals ==
  appliedCoupon = NULL =>
    /\ Discount = 0
    /\ Total = Subtotal + ShippingCharge
    /\ (Len(cartItems) = 1 /\ cartItems[1].product.price = 200 /\ cartItems[1].quantity = 2)
         => (Subtotal = 400 /\ ShippingCharge = 50 /\ Total = 450)

C25_Witness ==
  /\ appliedCoupon = NULL
  /\ Len(cartItems) = 1
  /\ cartItems[1].product.price = 200
  /\ cartItems[1].quantity = 2
  /\ Subtotal = 400
  /\ ShippingCharge = 50
  /\ Total = 450

C27_MinimumOrderKept ==
  (appliedCoupon # NULL /\ appliedCoupon.min_order_value # NoNum)
    => Subtotal >= appliedCoupon.min_order_value

\* C28: the held delivery belongs to the selected order: once every
\* fetchOrderDetails response has arrived, the held delivery is empty when no
\* order is selected, and otherwise its order_id is the id of the selected
\* order.
C28_DetailsOfSelectedOrder ==
  detailsFetch[Admin] = <<>> =>
    /\ selectedOrder[Admin] = NULL => delivery[Admin] = NULL
    /\ (selectedOrder[Admin] # NULL /\ delivery[Admin] # NULL)
         => delivery[Admin].order_id = selectedOrder[Admin].id

C30_RefundedHasEntry ==
  dbOrder.payment_status = "refunded"
    => \E i \in DOMAIN dbPayments :
         dbPayments[i].order_id = dbOrder.id /\ dbPayments[i].status = "refunded"

====
